---- MODULE Spec2Model ----
(***************************************************************************)
(* WealthGenie: the wizard of src/App.tsx, its allocation plan             *)
(* (recommendations), the overlap detection and allocation-sum memos, the  *)
(* plan handlers of the report step, the draft store and the calls to the  *)
(* content-generation collaborator of src/services/geminiService.ts.       *)
(*                                                                         *)
(* JavaScript array indices are kept 0-based in the handlers' arguments;   *)
(* At(recs, i) reads recs[i].  A scheme record keeps the fields the        *)
(* program reads or writes in its logic: name, the two percentages and the *)
(* alternatives; an alternative keeps its name.                            *)
(***************************************************************************)
EXTENDS Integers, Sequences, FiniteSets, TLC

VARIABLES
  step,              \* useState(1)                       App.tsx:28
  loading,           \* useState(false)                   App.tsx:29
  error,             \* useState<string | null>(null)     App.tsx:30
  aiCorrection,      \* useState<string | null>(null)     App.tsx:31
  hasDraft,          \* useState(false) + mount effect    App.tsx:32,95-100
  personal,          \* App.tsx:38
  financial,         \* App.tsx:41
  riskAnswers,       \* App.tsx:52
  riskProfile,       \* App.tsx:53
  investment,        \* App.tsx:54
  recommendations,   \* App.tsx:57
  portfolioSummary,  \* App.tsx:58
  localStorage,      \* the item stored under DRAFT_KEY
  pendingFix,        \* the resolvePortfolioOverlaps call in flight, or Null
  lastOp,            \* the handler that ran last and the path it took
  edits,             \* number of plan-handler invocations so far (bounded)
  pendingValidation, \* the validateFinancialHealth call in flight, or Null
  pendingRisk,       \* the calculateRiskProfile call in flight, or Null
  sipWords,          \* App.tsx:63
  sipTimeoutRef,     \* App.tsx:68: the timer that is set, or Null
  sipRequests,       \* the amounts whose getAmountInWords call is in flight
  today,             \* the day new Date() returns
  savedState         \* history: the values the state had when saveDraft wrote
                     \* the store's text, Null when it was there at the start

vars == <<step, loading, error, aiCorrection, hasDraft, personal, financial,
          riskAnswers, riskProfile, investment, recommendations,
          portfolioSummary, localStorage, pendingFix, lastOp, edits,
          pendingValidation, pendingRisk, sipWords, sipTimeoutRef,
          sipRequests, today, savedState>>

formVars == <<personal, financial, riskAnswers>>

intakeVars == <<pendingValidation, pendingRisk>>

wordVars == <<sipWords, sipTimeoutRef, sipRequests>>

-----------------------------------------------------------------------------
(* Bounds of the model *)

\* handleSchemeChange / handleAllocationOverride invocations explored per run
MaxEdits == 2

-----------------------------------------------------------------------------
(* Values *)

\* JavaScript null for object-valued state
Null == [null |-> TRUE]

\* JavaScript null for string-valued state (error, aiCorrection)
NoMessage == "null"

\* the argument a call leaves out
Undefined == [undefined |-> TRUE]

\* the length fixOverlapsWithAI requires of a reply
PlanSize == 5

\* a name that is falsy in JavaScript (empty or missing)
NoName == ""

FundNames == {"A", "B", "C", "D", "E", "F"}

Names == FundNames \cup {NoName}

Tracks == {"sip", "lumpsum"}

InvestmentTypes == {"SIP", "Lumpsum", "Both"}

\* the values typed into a percentage input (Number(e.target.value))
OverrideValues == {0, 30, 120}

SchemeOption(n) == [name |-> n]

RecommendedScheme(n, s, l, alts) ==
  [name |-> n, sipAllocationPct |-> s, lumpsumAllocationPct |-> l,
   alternatives |-> alts]

At(recs, i) == recs[i + 1]

HasIndex(recs, i) == i >= 0 /\ i < Len(recs)

-----------------------------------------------------------------------------
(* Derived values (useMemo) *)

\* countNames with a name's count set to 1 instead of incremented
RECURSIVE countNamesOnce(_, _)
countNamesOnce(recs, k) ==
  IF k = 0 THEN [n \in {} |-> 0]
  ELSE LET counts == countNamesOnce(recs, k - 1)
           r == recs[k]
       IN  IF r.name # NoName
           THEN [n \in (DOMAIN counts) \cup {r.name} |->
                   IF n = r.name THEN 1 ELSE counts[n]]
           ELSE counts

\* countNames without the guard on the name: nameless entries are counted
RECURSIVE countNamesAll(_, _)
countNamesAll(recs, k) ==
  IF k = 0 THEN [n \in {} |-> 0]
  ELSE LET counts == countNamesAll(recs, k - 1)
           r == recs[k]
       IN  [n \in (DOMAIN counts) \cup {r.name} |->
              IF n = r.name
              THEN (IF n \in DOMAIN counts THEN counts[n] ELSE 0) + 1
              ELSE counts[n]]

\* counts after the first k entries of recommendations.forEach: an entry
\* with a falsy name is skipped, any other adds one to its name's count
RECURSIVE countNames(_, _)
countNames(recs, k) ==
  IF k = 0 THEN [n \in {} |-> 0]
  ELSE LET counts == countNames(recs, k - 1)
           r == recs[k]
       IN  IF r.name # NoName
           THEN [n \in (DOMAIN counts) \cup {r.name} |->
                   IF n = r.name
                   THEN (IF n \in DOMAIN counts THEN counts[n] ELSE 0) + 1
                   ELSE counts[n]]
           ELSE counts

overlapsMapOf(recs) == countNames(recs, Len(recs))

overlapsMap == overlapsMapOf(recommendations)

hasAnyOverlapOf(recs) ==
  \E n \in DOMAIN overlapsMapOf(recs) : overlapsMapOf(recs)[n] > 1

hasAnyOverlap == hasAnyOverlapOf(recommendations)

\* recommendations.reduce((acc, curr) => ...) over the first k entries
RECURSIVE reduceSums(_, _)
reduceSums(recs, k) ==
  IF k = 0 THEN [sip |-> 0, lumpsum |-> 0]
  ELSE LET acc == reduceSums(recs, k - 1)
           curr == recs[k]
       IN  [sip |-> acc.sip + curr.sipAllocationPct,
            lumpsum |-> acc.lumpsum + curr.lumpsumAllocationPct]

allocationSumsOf(recs) == reduceSums(recs, Len(recs))

allocationSums == allocationSumsOf(recommendations)

\* the "Allocation Totals" panel of the report step
allocationWarningVisible ==
  step = 5 /\ (allocationSums.sip # 100 \/ allocationSums.lumpsum # 100)

-----------------------------------------------------------------------------
(* handleSchemeChange, as a function of the plan *)

\* [slot, ...alternatives] as the options find and filter run over
candidatesOf(slot) == <<SchemeOption(slot.name)>> \o slot.alternatives

\* [slot, ...alternatives].find(s => s?.name === newName): the position of
\* the first match, 0 when there is none
findCandidate(slot, newName) ==
  LET c == candidatesOf(slot)
      hits == {k \in 1..Len(c) : c[k].name = newName}
  IN  IF hits = {} THEN 0 ELSE CHOOSE k \in hits : \A j \in hits : k <= j

\* recommendations.some((r, rIdx) => rIdx !== index && r?.name === newName)
willOverlap(recs, index, newName) ==
  \E rIdx \in 0..(Len(recs) - 1) :
    rIdx # index /\ At(recs, rIdx).name = newName

\* a variant that filters the alternatives alone, dropping the replaced fund
remainingAlternativesOnly(slot, newName) ==
  SelectSeq(slot.alternatives, LAMBDA s : s.name # newName)

\* [slot, ...alternatives].filter(s => s?.name !== newName)
remainingAlternatives(slot, newName) ==
  SelectSeq(candidatesOf(slot), LAMBDA s : s.name # newName)

\* a variant that starts the new fund at zero weight
swappedSchemeZeroWeights(slot, newName) ==
  LET chosen == candidatesOf(slot)[findCandidate(slot, newName)]
  IN  RecommendedScheme(chosen.name, 0, 0,
                        remainingAlternatives(slot, newName))

\* the entry written to updated[index]
swappedScheme(slot, newName) ==
  LET chosen == candidatesOf(slot)[findCandidate(slot, newName)]
  IN  RecommendedScheme(chosen.name, slot.sipAllocationPct,
                        slot.lumpsumAllocationPct,
                        remainingAlternatives(slot, newName))

\* schemeChange refusing every swap that would overlap, whatever the answer
schemeChangeBlocking(recs, index, newName, confirmed) ==
  IF ~HasIndex(recs, index)
  THEN [outcome |-> "noSlot", confirmAsked |-> FALSE, plan |-> recs]
  ELSE IF findCandidate(At(recs, index), newName) = 0
  THEN [outcome |-> "notCandidate", confirmAsked |-> FALSE, plan |-> recs]
  ELSE IF willOverlap(recs, index, newName)
  THEN [outcome |-> "declined", confirmAsked |-> TRUE, plan |-> recs]
  ELSE [outcome |-> "swapped", confirmAsked |-> FALSE,
        plan |-> [recs EXCEPT ![index + 1] =
                    swappedScheme(At(recs, index), newName)]]

\* the whole handler: the path taken, whether confirm() was shown, and the
\* plan passed to setRecommendations (the plan itself when nothing is set)
schemeChange(recs, index, newName, confirmed) ==
  IF ~HasIndex(recs, index)
  THEN [outcome |-> "noSlot", confirmAsked |-> FALSE, plan |-> recs]
  ELSE IF findCandidate(At(recs, index), newName) = 0
  THEN [outcome |-> "notCandidate", confirmAsked |-> FALSE, plan |-> recs]
  ELSE IF willOverlap(recs, index, newName) /\ ~confirmed
  THEN [outcome |-> "declined", confirmAsked |-> TRUE, plan |-> recs]
  ELSE [outcome |-> "swapped",
        confirmAsked |-> willOverlap(recs, index, newName),
        plan |-> [recs EXCEPT ![index + 1] =
                    swappedScheme(At(recs, index), newName)]]

-----------------------------------------------------------------------------
(* handleAllocationOverride, as a function of the plan *)

\* allocationOverride taking the rest of the track from the next slot, so
\* that the track's total is kept
allocationOverrideRebalancing(recs, index, type, value) ==
  LET other == ((index + 1) % Len(recs)) + 1
  IN  IF type = "sip"
      THEN [recs EXCEPT
              ![other].sipAllocationPct =
                 IF other = index + 1 THEN value
                 ELSE @ + recs[index + 1].sipAllocationPct - value,
              ![index + 1].sipAllocationPct = value]
      ELSE [recs EXCEPT
              ![other].lumpsumAllocationPct =
                 IF other = index + 1 THEN value
                 ELSE @ + recs[index + 1].lumpsumAllocationPct - value,
              ![index + 1].lumpsumAllocationPct = value]

allocationOverride(recs, index, type, value) ==
  IF type = "sip"
  THEN [recs EXCEPT ![index + 1].sipAllocationPct = value]
  ELSE [recs EXCEPT ![index + 1].lumpsumAllocationPct = value]

-----------------------------------------------------------------------------
(* The content-generation collaborator *)

\* a parsed reply: an array of schemes, or JSON that is no array (null)
ArrayReply(items) == [isArray |-> TRUE, items |-> items]

NullReply == [isArray |-> FALSE, items |-> <<>>]

\* riskAnswers[3] || 4: the score recorded for question 3, 4 when there is none
horizonScore(answers) ==
  IF 3 \in DOMAIN answers /\ answers[3] # 0 THEN answers[3] ELSE 4

isShortHorizon(answers) == horizonScore(answers) <= 2

\* getRecommendedSchemes reads riskAnswers[3] before it builds the prompt:
\* with the riskAnswers argument left out the read throws a TypeError and
\* the request is never sent; otherwise the collaborator's reply is returned
getRecommendedSchemes(profile, age, inv, answers, reply) ==
  IF answers = Undefined
  THEN [threw |-> TRUE, value |-> NullReply]
  ELSE [threw |-> FALSE, value |-> reply,
        prompt |-> [category |-> profile.category, age |-> age,
                    isShortHorizon |-> isShortHorizon(answers)]]

\* a pending resolvePortfolioOverlaps call: its arguments, and the prompt it
\* sent, which carries the names and the category only
resolvePortfolioOverlaps(currentPortfolio, profile) ==
  [currentPortfolio |-> currentPortfolio,
   profile |-> profile,
   prompt |-> [names |-> [k \in 1..Len(currentPortfolio) |->
                            currentPortfolio[k].name],
               category |-> profile.category]]

\* a variant that takes an array of any length
acceptsReplyAnyLength(optimized) == optimized.isArray

\* optimized && optimized.length === 5
acceptsReply(optimized) ==
  optimized.isArray /\ Len(optimized.items) = PlanSize

-----------------------------------------------------------------------------
(* The draft store *)

\* a variant of the saved data that leaves the capacity out
draftDataWithoutSummary ==
  [step |-> step, personal |-> personal, financial |-> financial,
   riskAnswers |-> riskAnswers, riskProfile |-> riskProfile,
   investment |-> investment,
   recommendations |-> [present |-> TRUE, value |-> recommendations],
   portfolioSummary |-> Null]

draftData ==
  [step |-> step, personal |-> personal, financial |-> financial,
   riskAnswers |-> riskAnswers, riskProfile |-> riskProfile,
   investment |-> investment,
   recommendations |-> [present |-> TRUE, value |-> recommendations],
   portfolioSummary |-> portfolioSummary]

\* a draft field that is there, and one that is missing
Present(v) == [present |-> TRUE, value |-> v]

Missing == [present |-> FALSE, value |-> <<>>]

\* the stored text: well-formed JSON of a value, or text JSON.parse rejects
JSONstringify(data) == [wellFormed |-> TRUE, value |-> data]

JSONparse(text) ==
  IF text.wellFormed THEN [threw |-> FALSE, value |-> text.value]
  ELSE [threw |-> TRUE, value |-> Null]

CorruptText == [wellFormed |-> FALSE, value |-> Null]

-----------------------------------------------------------------------------
(* Sample data: stored drafts and collaborator replies *)

InitialPersonal ==
  [name |-> "", dob |-> "", age |-> 0, mobile |-> "", email |-> ""]

InitialFinancial ==
  [incomeStatus |-> "Earning", hasCorpus |-> FALSE, hasPension |-> FALSE,
   totalCorpusToInvest |-> 0, monthlyIncome |-> 0, monthlyExpenses |-> 0,
   yearlyExpenses |-> 0,
   insurance |-> [termPlan |-> 0, healthInsurance |-> 0,
                  personalAccident |-> 0],
   taxSlab |-> "Up to 3,00,000"]

InitialInvestment == [sipAmount |-> 0, lumpsumAmount |-> 0, type |-> "SIP"]

SamplePersonal ==
  [name |-> "Asha", dob |-> "1980-01-01", age |-> 46,
   mobile |-> "9876543210", email |-> "asha@example.com"]

SampleFinancial ==
  [incomeStatus |-> "Earning", hasCorpus |-> FALSE, hasPension |-> FALSE,
   totalCorpusToInvest |-> 0, monthlyIncome |-> 100000,
   monthlyExpenses |-> 30000, yearlyExpenses |-> 60000,
   insurance |-> [termPlan |-> 12000, healthInsurance |-> 12000,
                  personalAccident |-> 0],
   taxSlab |-> "10,00,001 - 12,00,000"]

SampleAnswers == [q \in 1..4 |-> 3]

SampleSummary ==
  [investableFromSalary |-> 48000, investableFromCorpus |-> 0,
   totalInvestable |-> 48000]

SampleInvestment(t) == [sipAmount |-> 48000, lumpsumAmount |-> 0, type |-> t]

\* five distinct funds, both tracks at 100; slot 1 and slot 2 offer fund A of
\* slot 0, slot 4 offers its own name again and a nameless alternative
PlanDistinct ==
  << RecommendedScheme("A", 40, 30, <<SchemeOption("F")>>),
     RecommendedScheme("B", 20, 30, <<SchemeOption("A"), SchemeOption("F")>>),
     RecommendedScheme("C", 20, 20, <<SchemeOption("A")>>),
     RecommendedScheme("D", 10, 10, <<>>),
     RecommendedScheme("E", 10, 10, <<SchemeOption("E"), SchemeOption(NoName)>>) >>

\* fund A twice; the SIP track at 100, the lumpsum track left at 0
PlanOverlap ==
  << RecommendedScheme("A", 40, 0, <<SchemeOption("B")>>),
     RecommendedScheme("A", 20, 0, <<SchemeOption("B"), SchemeOption("F")>>),
     RecommendedScheme("C", 20, 0, <<SchemeOption("D")>>),
     RecommendedScheme("D", 10, 0, <<SchemeOption("F")>>),
     RecommendedScheme("E", 10, 0, <<>>) >>

\* two slots without a name
PlanNameless ==
  << RecommendedScheme(NoName, 40, 40, <<SchemeOption("A")>>),
     RecommendedScheme(NoName, 20, 20, <<SchemeOption(NoName)>>),
     RecommendedScheme("C", 20, 20, <<SchemeOption("C")>>),
     RecommendedScheme("D", 10, 10, <<>>),
     RecommendedScheme("E", 10, 10, <<SchemeOption("D")>>) >>

\* five distinct funds whose percentages do not add up to 100
PlanOffTotal ==
  << RecommendedScheme("B", 30, 30, <<SchemeOption("A")>>),
     RecommendedScheme("C", 30, 20, <<>>),
     RecommendedScheme("D", 20, 20, <<>>),
     RecommendedScheme("E", 20, 10, <<>>),
     RecommendedScheme("F", 20, 10, <<>>) >>

\* five funds, two of them the same, both tracks at 100
PlanStillOverlapping ==
  << RecommendedScheme("F", 20, 20, <<>>),
     RecommendedScheme("F", 20, 20, <<SchemeOption("A")>>),
     RecommendedScheme("C", 20, 20, <<>>),
     RecommendedScheme("D", 20, 20, <<>>),
     RecommendedScheme("E", 20, 20, <<>>) >>

PlanShort ==
  << RecommendedScheme("A", 50, 50, <<>>),
     RecommendedScheme("B", 50, 50, <<>>) >>

Draft(st, profile, t, recs) ==
  [step |-> st, personal |-> SamplePersonal, financial |-> SampleFinancial,
   riskAnswers |-> SampleAnswers, riskProfile |-> profile,
   investment |-> SampleInvestment(t), recommendations |-> recs,
   portfolioSummary |-> SampleSummary]

Moderate == [category |-> "Moderate"]

\* a draft saved at step 2 or 3: no profile, no summary, no plan yet
IntakeDraft(st, answers) ==
  [step |-> st, personal |-> SamplePersonal, financial |-> SampleFinancial,
   riskAnswers |-> answers, riskProfile |-> Null,
   investment |-> InitialInvestment, recommendations |-> Present(<<>>),
   portfolioSummary |-> Null]

\* questions 1, 2 and 3 answered
ThreeAnswers == <<2, 4, 1>>

\* what the store may hold when the application starts: the text of a draft
\* (its recommendations may be missing), or text that does not parse
StoredDrafts ==
  { JSONstringify(Draft(5, Moderate, "Both", Present(PlanDistinct))),
    JSONstringify(Draft(5, Moderate, "SIP", Present(PlanOverlap))),
    JSONstringify(Draft(5, Null, "Lumpsum", Present(PlanNameless))),
    JSONstringify(Draft(5, Moderate, "Both", Present(PlanShort))),
    JSONstringify(Draft(5, Moderate, "SIP", Missing)),
    JSONstringify(Draft(4, Moderate, "SIP", Present(<<>>))),
    JSONstringify(IntakeDraft(2, <<>>)),
    JSONstringify(IntakeDraft(3, <<>>)),
    JSONstringify(IntakeDraft(3, ThreeAnswers)),
    CorruptText }

\* what the collaborator may answer to resolvePortfolioOverlaps, parsed:
\* arrays of schemes of any length, or JSON that is no array
FixReplies ==
  { ArrayReply(PlanDistinct), ArrayReply(PlanOffTotal),
    ArrayReply(PlanStillOverlapping), ArrayReply(PlanShort), ArrayReply(<<>>),
    NullReply }

-----------------------------------------------------------------------------
(* Effects: the derived age, the SIP amount in words *)

\* new Date(): the day the first session runs on, and the day after it
Today == [year |-> 2026, month |-> 6, day |-> 15]

Tomorrow == [year |-> 2026, month |-> 6, day |-> 16]

\* the texts the date input may deliver (the empty text when it is cleared)
DobTexts == {"", "1980-01-01", "2000-06-15", "2000-06-16", "2027-01-01"}

\* new Date(text), read back with getFullYear / getMonth / getDate
parseDate(text) ==
  CASE text = "1980-01-01" -> [year |-> 1980, month |-> 1, day |-> 1]
    [] text = "2000-06-15" -> [year |-> 2000, month |-> 6, day |-> 15]
    [] text = "2000-06-16" -> [year |-> 2000, month |-> 6, day |-> 16]
    [] text = "2027-01-01" -> [year |-> 2027, month |-> 1, day |-> 1]

\* the age effect: the year difference, one less when this year's birthday
\* is still to come
computeAge(birth, now) ==
  LET age == now.year - birth.year
      m == now.month - birth.month
  IN  IF m < 0 \/ (m = 0 /\ now.day < birth.day) THEN age - 1 ELSE age

\* the effect runs when personal.dob has changed and is not empty
ageEffect(prev, p) ==
  IF p.dob # prev.dob /\ p.dob # ""
  THEN [p EXCEPT !.age = computeAge(parseDate(p.dob), today)]
  ELSE p

\* the amounts typed into the SIP input
SipAmounts == {0, 1000, 48000}

\* the words the collaborator renders an amount in
WordsOf(amount) ==
  CASE amount = 1000 -> "One Thousand"
    [] amount = 48000 -> "Forty Eight Thousand"
    [] OTHER -> ""

\* the word-conversion effect of investment.sipAmount, run when the amount
\* has changed: a positive amount replaces the timer, any other amount
\* empties the words and leaves a timer that is set running
sipWordsEffect(prevAmount, amount) ==
  IF amount = prevAmount
  THEN [words |-> sipWords, timer |-> sipTimeoutRef]
  ELSE IF amount > 0
  THEN [words |-> sipWords, timer |-> [amount |-> amount]]
  ELSE [words |-> "", timer |-> sipTimeoutRef]

-----------------------------------------------------------------------------
(* Initial state: the component mounted, the mount effect run.  The store *)
(* holds a draft of an earlier session; loadDraft takes step,             *)
(* recommendations and the rest from it without checking them (it only    *)
(* defaults a missing step to 1 and missing recommendations to []).       *)

Op(name, outcome) ==
  [op |-> name, outcome |-> outcome, confirmAsked |-> FALSE]

Init ==
  /\ step = 1
  /\ loading = FALSE
  /\ error = NoMessage
  /\ aiCorrection = NoMessage
  /\ localStorage \in StoredDrafts
  /\ hasDraft = TRUE
  /\ personal = InitialPersonal
  /\ financial = InitialFinancial
  /\ riskAnswers = <<>>
  /\ riskProfile = Null
  /\ investment = InitialInvestment
  /\ recommendations = <<>>
  /\ portfolioSummary = Null
  /\ pendingFix = Null
  /\ lastOp = Op("mount", "ok")
  /\ edits = 0
  /\ pendingValidation = Null
  /\ pendingRisk = Null
  /\ sipWords = ""
  /\ sipTimeoutRef = Null
  /\ sipRequests = {}
  /\ today = Today
  /\ savedState = Null

-----------------------------------------------------------------------------
(* Draft handlers *)

\* "Save Draft" is offered from step 2 on
saveDraft ==
  /\ step > 1
  /\ localStorage' = JSONstringify(draftData)
  /\ hasDraft' = TRUE
  /\ lastOp' = Op("saveDraft", "saved")
  /\ savedState' =
       [step |-> step, personal |-> personal, financial |-> financial,
        riskAnswers |-> riskAnswers, riskProfile |-> riskProfile,
        investment |-> investment, recommendations |-> recommendations,
        portfolioSummary |-> portfolioSummary]
  /\ UNCHANGED <<step, loading, error, aiCorrection, formVars, riskProfile,
                 investment, recommendations, portfolioSummary, pendingFix,
                 edits>>
  /\ UNCHANGED intakeVars
  /\ UNCHANGED <<wordVars, today>>

\* "Resume Session" is offered at step 1 while hasDraft
loadDraft ==
  /\ step = 1
  /\ hasDraft
  /\ IF localStorage = Null
     THEN /\ lastOp' = Op("loadDraft", "noItem")
          /\ UNCHANGED <<step, error, hasDraft, formVars, riskProfile,
                         investment, recommendations, portfolioSummary,
                         wordVars>>
     ELSE LET parsed == JSONparse(localStorage)
              data == parsed.value
          IN  IF parsed.threw
              THEN /\ error' = "Failed to load saved draft. It might be corrupted."
                   /\ lastOp' = Op("loadDraft", "corrupt")
                   /\ UNCHANGED <<step, hasDraft, formVars, riskProfile,
                                  investment, recommendations,
                                  portfolioSummary, wordVars>>
              ELSE /\ step' = (IF data.step = 0 THEN 1 ELSE data.step)
                   /\ personal' = ageEffect(personal, data.personal)
                   /\ financial' = data.financial
                   /\ riskAnswers' = data.riskAnswers
                   /\ riskProfile' = data.riskProfile
                   /\ investment' = data.investment
                   /\ recommendations' =
                        (IF data.recommendations.present
                         THEN data.recommendations.value ELSE <<>>)
                   /\ portfolioSummary' = data.portfolioSummary
                   /\ hasDraft' = FALSE
                   /\ lastOp' = Op("loadDraft", "loaded")
                   /\ sipWords' =
                        sipWordsEffect(investment.sipAmount,
                                       data.investment.sipAmount).words
                   /\ sipTimeoutRef' =
                        sipWordsEffect(investment.sipAmount,
                                       data.investment.sipAmount).timer
                   /\ UNCHANGED <<error, sipRequests>>
  /\ UNCHANGED <<loading, aiCorrection, localStorage, pendingFix, edits>>
  /\ UNCHANGED intakeVars
  /\ UNCHANGED <<today, savedState>>

-----------------------------------------------------------------------------
(* Step 4: the investment type, the plan request *)

setInvestmentType(t) ==
  /\ step = 4
  /\ riskProfile # Null
  /\ portfolioSummary # Null
  /\ investment' = [investment EXCEPT !.type = t]
  /\ lastOp' = Op("setInvestmentType", "set")
  /\ UNCHANGED <<step, loading, error, aiCorrection, hasDraft, formVars,
                 riskProfile, recommendations, portfolioSummary, localStorage,
                 pendingFix, edits>>
  /\ UNCHANGED intakeVars
  /\ UNCHANGED <<wordVars, today, savedState>>

\* the call passes three arguments: riskAnswers is left out
finalSubmitCall(reply) ==
  getRecommendedSchemes(riskProfile, personal.age, investment, Undefined,
                        reply)

handleFinalSubmit(reply) ==
  /\ step = 4
  /\ riskProfile # Null
  /\ portfolioSummary # Null
  /\ ~loading
  /\ LET call == finalSubmitCall(reply)
     IN  IF call.threw
         THEN /\ error' = "Failed to generate recommendations. Please try again."
              /\ lastOp' = Op("handleFinalSubmit", "failed")
              /\ UNCHANGED <<step, recommendations>>
         ELSE /\ recommendations' = call.value.items
              /\ step' = 5
              /\ lastOp' = Op("handleFinalSubmit", "generated")
              /\ UNCHANGED error
  /\ loading' = FALSE
  /\ UNCHANGED <<aiCorrection, hasDraft, formVars, riskProfile, investment,
                 portfolioSummary, localStorage, pendingFix, edits>>
  /\ UNCHANGED intakeVars
  /\ UNCHANGED <<wordVars, today, savedState>>

-----------------------------------------------------------------------------
(* Step 5: the report *)

\* a variant of Back that goes two steps back
BackTwoSteps ==
  /\ step = 5
  /\ step' = 3
  /\ lastOp' = Op("Back", "ok")
  /\ UNCHANGED <<loading, error, aiCorrection, hasDraft, formVars,
                 riskProfile, investment, recommendations, portfolioSummary,
                 localStorage, pendingFix, edits>>
  /\ UNCHANGED intakeVars
  /\ UNCHANGED <<wordVars, today, savedState>>

Back ==
  /\ step = 5
  /\ step' = 4
  /\ lastOp' = Op("Back", "ok")
  /\ UNCHANGED <<loading, error, aiCorrection, hasDraft, formVars,
                 riskProfile, investment, recommendations, portfolioSummary,
                 localStorage, pendingFix, edits>>
  /\ UNCHANGED intakeVars
  /\ UNCHANGED <<wordVars, today, savedState>>

\* the fund picker of row index; confirmed is the answer confirm() would get
handleSchemeChange(index, newName, confirmed) ==
  /\ step = 5
  /\ edits < MaxEdits
  /\ LET r == schemeChange(recommendations, index, newName, confirmed)
     IN  /\ recommendations' = r.plan
         /\ lastOp' = [op |-> "handleSchemeChange", outcome |-> r.outcome,
                       confirmAsked |-> r.confirmAsked]
  /\ edits' = edits + 1
  /\ UNCHANGED <<step, loading, error, aiCorrection, hasDraft, formVars,
                 riskProfile, investment, portfolioSummary, localStorage,
                 pendingFix>>
  /\ UNCHANGED intakeVars
  /\ UNCHANGED <<wordVars, today, savedState>>

\* the percentage inputs of row index: the SIP input is rendered for types
\* SIP and Both, the lumpsum input for types Lumpsum and Both
trackOffered(type) ==
  IF type = "sip" THEN investment.type \in {"SIP", "Both"}
  ELSE investment.type \in {"Lumpsum", "Both"}

handleAllocationOverride(index, type, value) ==
  /\ step = 5
  /\ edits < MaxEdits
  /\ HasIndex(recommendations, index)
  /\ trackOffered(type)
  /\ recommendations' = allocationOverride(recommendations, index, type, value)
  /\ lastOp' = Op("handleAllocationOverride", type)
  /\ edits' = edits + 1
  /\ UNCHANGED <<step, loading, error, aiCorrection, hasDraft, formVars,
                 riskProfile, investment, portfolioSummary, localStorage,
                 pendingFix>>
  /\ UNCHANGED intakeVars
  /\ UNCHANGED <<wordVars, today, savedState>>

\* the handler: returns at once without a risk profile, else sends the
\* request and leaves it pending
fixOverlapsWithAI ==
  /\ pendingFix = Null
  /\ IF riskProfile = Null
     THEN /\ lastOp' = Op("fixOverlapsWithAI", "noProfile")
          /\ UNCHANGED <<loading, pendingFix>>
     ELSE /\ loading' = TRUE
          /\ pendingFix' = resolvePortfolioOverlaps(recommendations, riskProfile)
          /\ lastOp' = Op("fixOverlapsWithAI", "requested")
  /\ UNCHANGED <<step, error, aiCorrection, hasDraft, formVars, riskProfile,
                 investment, recommendations, portfolioSummary, localStorage,
                 edits>>
  /\ UNCHANGED intakeVars
  /\ UNCHANGED <<wordVars, today, savedState>>

\* "Re-Balance with AI" is rendered while hasAnyOverlap, disabled while loading
clickRebalance ==
  /\ step = 5
  /\ hasAnyOverlap
  /\ ~loading
  /\ fixOverlapsWithAI

\* the request is answered: the reply replaces the plan when it is accepted
fixOverlapsResolved(optimized) ==
  /\ pendingFix # Null
  /\ IF acceptsReply(optimized)
     THEN /\ recommendations' = optimized.items
          /\ lastOp' = Op("fixOverlapsWithAI",
                           IF recommendations = pendingFix.currentPortfolio
                           THEN "replaced" ELSE "replacedEdited")
     ELSE /\ lastOp' = Op("fixOverlapsWithAI", "ignored")
          /\ UNCHANGED recommendations
  /\ loading' = FALSE
  /\ pendingFix' = Null
  /\ UNCHANGED <<step, error, aiCorrection, hasDraft, formVars, riskProfile,
                 investment, portfolioSummary, localStorage, edits>>
  /\ UNCHANGED intakeVars
  /\ UNCHANGED <<wordVars, today, savedState>>

\* the request is rejected, or its text does not parse
\* a variant of the rejection that leaves the loading flag set
fixOverlapsRejectedStillLoading ==
  /\ pendingFix # Null
  /\ error' = "AI re-optimization failed."
  /\ lastOp' = Op("fixOverlapsWithAI", "failed")
  /\ pendingFix' = Null
  /\ UNCHANGED <<step, loading, aiCorrection, hasDraft, formVars, riskProfile,
                 investment, recommendations, portfolioSummary, localStorage,
                 edits>>
  /\ UNCHANGED intakeVars
  /\ UNCHANGED <<wordVars, today, savedState>>

fixOverlapsRejected ==
  /\ pendingFix # Null
  /\ error' = "AI re-optimization failed."
  /\ lastOp' = Op("fixOverlapsWithAI", "failed")
  /\ loading' = FALSE
  /\ pendingFix' = Null
  /\ UNCHANGED <<step, aiCorrection, hasDraft, formVars, riskProfile,
                 investment, recommendations, portfolioSummary, localStorage,
                 edits>>
  /\ UNCHANGED intakeVars
  /\ UNCHANGED <<wordVars, today, savedState>>

-----------------------------------------------------------------------------
(* The report phase of a session resumed from a stored draft.  The store  *)
(* is read at step 1 only, so what saveDraft writes after a draft has been *)
(* resumed is not read again in the session: saveDraft is left to the      *)
(* specification of the draft round trip.                                  *)

Next ==
  \/ loadDraft
  \/ \E t \in InvestmentTypes : setInvestmentType(t)
  \/ \E reply \in FixReplies : handleFinalSubmit(reply)
  \/ Back
  \/ \E index \in 0..PlanSize, newName \in Names, confirmed \in BOOLEAN :
       handleSchemeChange(index, newName, confirmed)
  \/ \E index \in 0..(PlanSize - 1), type \in Tracks, value \in OverrideValues :
       handleAllocationOverride(index, type, value)
  \/ clickRebalance
  \/ \E optimized \in FixReplies : fixOverlapsResolved(optimized)
  \/ fixOverlapsRejected

Spec == Init /\ [][Next]_vars

-----------------------------------------------------------------------------
(* The same session with fixOverlapsWithAI also called as an operation of  *)
(* the plan, whatever the plan: the handler itself asks only for a risk    *)
(* profile; that the plan overlaps is a condition of the button.           *)

invokeFixOverlaps ==
  /\ step = 5
  /\ fixOverlapsWithAI

NextHandlers ==
  \/ Next
  \/ invokeFixOverlaps

SpecHandlers == Init /\ [][NextHandlers]_vars

-----------------------------------------------------------------------------
(* Step 1: personal details *)

PersonNames == {"Asha"}

Mobiles == {"9876543210", "98765"}

Emails == {"asha@example.com", "asha"}

\* mobile.match(/^[0-9]{10}$/)
isTenDigits(mobile) == mobile \in {"9876543210"}

\* email.includes("@")
includesAt(email) == email \in {"asha@example.com"}

\* the browser submits the form only when the required inputs are filled and
\* the input of type email holds an address
personalFormValid ==
  /\ personal.name # ""
  /\ personal.dob # ""
  /\ personal.mobile # ""
  /\ includesAt(personal.email)

setPersonal(p) ==
  /\ step = 1
  /\ personal' = ageEffect(personal, p)
  /\ lastOp' = Op("setPersonal", "set")
  /\ UNCHANGED <<step, loading, error, aiCorrection, hasDraft, financial,
                 riskAnswers, riskProfile, investment, recommendations,
                 portfolioSummary, localStorage, pendingFix, edits>>
  /\ UNCHANGED intakeVars
  /\ UNCHANGED <<wordVars, today, savedState>>

setName(v) == setPersonal([personal EXCEPT !.name = v])

setDob(v) == setPersonal([personal EXCEPT !.dob = v])

setMobile(v) == setPersonal([personal EXCEPT !.mobile = v])

setEmail(v) == setPersonal([personal EXCEPT !.email = v])

handlePersonalSubmit ==
  /\ step = 1
  /\ personalFormValid
  /\ IF ~isTenDigits(personal.mobile)
     THEN /\ error' = "Please enter a valid 10-digit mobile number."
          /\ lastOp' = Op("handlePersonalSubmit", "mobile")
          /\ UNCHANGED step
     ELSE IF ~includesAt(personal.email)
     THEN /\ error' = "Please enter a valid email address."
          /\ lastOp' = Op("handlePersonalSubmit", "email")
          /\ UNCHANGED step
     ELSE /\ error' = NoMessage
          /\ step' = 2
          /\ lastOp' = Op("handlePersonalSubmit", "advanced")
  /\ UNCHANGED <<loading, aiCorrection, hasDraft, formVars, riskProfile,
                 investment, recommendations, portfolioSummary, localStorage,
                 pendingFix, edits>>
  /\ UNCHANGED intakeVars
  /\ UNCHANGED <<wordVars, today, savedState>>

-----------------------------------------------------------------------------
(* Step 2: the financial profile and its validation *)

TAX_SLABS ==
  << "Up to 3,00,000", "3,00,001 - 7,00,000", "7,00,001 - 10,00,000",
     "10,00,001 - 12,00,000", "12,00,001 - 15,00,000", "Above 15,00,000" >>

TaxSlabLabels == {TAX_SLABS[i] : i \in 1..Len(TAX_SLABS)}

\* amounts typed into the number inputs
Incomes == {0, 100000}

MonthlyExpenses == {0, 30000}

YearlyExpenses == {0, 60000}

Premiums == {0, 24000}

\* the options of the tax-slab select that are picked
SlabsPicked == {TAX_SLABS[1], TAX_SLABS[3], TAX_SLABS[6]}

setMonthlyIncome(v) == [financial EXCEPT !.monthlyIncome = v]

setMonthlyExpenses(v) == [financial EXCEPT !.monthlyExpenses = v]

setYearlyExpenses(v) == [financial EXCEPT !.yearlyExpenses = v]

setTermPlan(v) == [financial EXCEPT !.insurance.termPlan = v]

setTaxSlab(v) == [financial EXCEPT !.taxSlab = v]

\* an input of the form: the inputs stay enabled while a validation runs
setFinancial(f) ==
  /\ step = 2
  /\ f # financial
  /\ financial' = f
  /\ lastOp' = Op("setFinancial", "set")
  /\ UNCHANGED <<step, loading, error, aiCorrection, hasDraft, personal,
                 riskAnswers, riskProfile, investment, recommendations,
                 portfolioSummary, localStorage, pendingFix, edits>>
  /\ UNCHANGED intakeVars
  /\ UNCHANGED <<wordVars, today, savedState>>

insuranceMonthly(f) ==
  (f.insurance.termPlan + f.insurance.healthInsurance
     + f.insurance.personalAccident) \div 12

totalMonthlyOutflow(f) ==
  f.monthlyExpenses + (f.yearlyExpenses \div 12) + insuranceMonthly(f)

\* what validateFinancialHealth works out and sends; the contradictions are
\* looked for by the collaborator, not by the function
validateFinancialHealth(p, f) ==
  [monthlyInflow |-> f.monthlyIncome,
   annualSalaryIncome |-> f.monthlyIncome * 12,
   totalFinancialBase |-> f.monthlyIncome * 12 + f.totalCorpusToInvest,
   selectedTaxSlab |-> f.taxSlab,
   totalMonthlyOutflow |-> totalMonthlyOutflow(f)]

\* the parsed reply: isValid, errorMessage (nullable) and suggestedTaxSlab
\* (nullable, any text)
Validation(isValid, errorMessage, suggestedTaxSlab) ==
  [isValid |-> isValid, errorMessage |-> errorMessage,
   suggestedTaxSlab |-> suggestedTaxSlab]

SuggestedSlabs == {NoMessage, "", TAX_SLABS[3], "10%"}

ValidationReplies ==
  { Validation(TRUE, NoMessage, t) : t \in SuggestedSlabs }
    \cup { Validation(FALSE, "Monthly income is less than monthly outflow.", t) :
             t \in SuggestedSlabs }
    \cup { Validation(FALSE, NoMessage, NoMessage) }

\* a variant that takes every suggestion that is not null, the empty text
\* and the declared slab included
suggestionAppliesUnchecked(validation, declaredTaxSlab) ==
  validation.suggestedTaxSlab # NoMessage

\* validation.suggestedTaxSlab && validation.suggestedTaxSlab !== financial.taxSlab
suggestionApplies(validation, declaredTaxSlab) ==
  /\ validation.suggestedTaxSlab \notin {NoMessage, ""}
  /\ validation.suggestedTaxSlab # declaredTaxSlab

\* the submit: the request is sent and left pending
handleFinancialSubmit ==
  /\ step = 2
  /\ ~loading
  /\ loading' = TRUE
  /\ error' = NoMessage
  /\ aiCorrection' = NoMessage
  /\ pendingValidation' =
       [personal |-> personal, financial |-> financial,
        prompt |-> validateFinancialHealth(personal, financial)]
  /\ lastOp' = Op("handleFinancialSubmit", "requested")
  /\ UNCHANGED <<step, hasDraft, formVars, riskProfile, investment,
                 recommendations, portfolioSummary, localStorage, pendingFix,
                 edits, pendingRisk>>
  /\ UNCHANGED <<wordVars, today, savedState>>

\* the reply arrives: the suggestion is applied first, then isValid is read
validationResolved(validation) ==
  /\ pendingValidation # Null
  /\ IF suggestionApplies(validation, pendingValidation.financial.taxSlab)
     THEN /\ financial' =
               [financial EXCEPT !.taxSlab = validation.suggestedTaxSlab]
          /\ aiCorrection' = "AI Correction: Tax Slab was adjusted"
     ELSE UNCHANGED <<financial, aiCorrection>>
  /\ IF ~validation.isValid
     THEN /\ error' = validation.errorMessage
          /\ lastOp' = Op("handleFinancialSubmit", "invalid")
          /\ UNCHANGED step
     ELSE /\ step' = 3
          /\ lastOp' = Op("handleFinancialSubmit", "advanced")
          /\ UNCHANGED error
  /\ loading' = FALSE
  /\ pendingValidation' = Null
  /\ UNCHANGED <<hasDraft, personal, riskAnswers, riskProfile, investment,
                 recommendations, portfolioSummary, localStorage, pendingFix,
                 edits, pendingRisk>>
  /\ UNCHANGED <<wordVars, today, savedState>>

\* the request is rejected, or its text does not parse to an object
validationRejected ==
  /\ pendingValidation # Null
  /\ error' = "AI Analysis failed. Please check inputs."
  /\ lastOp' = Op("handleFinancialSubmit", "failed")
  /\ loading' = FALSE
  /\ pendingValidation' = Null
  /\ UNCHANGED <<step, aiCorrection, hasDraft, formVars, riskProfile,
                 investment, recommendations, portfolioSummary, localStorage,
                 pendingFix, edits, pendingRisk>>
  /\ UNCHANGED <<wordVars, today, savedState>>

-----------------------------------------------------------------------------
(* The intake phase of a session: steps 1 and 2, from the first page or   *)
(* from a resumed draft.                                                   *)

NextIntake ==
  \/ loadDraft
  \/ \E v \in PersonNames : setName(v)
  \/ \E v \in DobTexts : setDob(v)
  \/ \E v \in Mobiles : setMobile(v)
  \/ \E v \in Emails : setEmail(v)
  \/ handlePersonalSubmit
  \/ \E v \in Incomes : setFinancial(setMonthlyIncome(v))
  \/ \E v \in MonthlyExpenses : setFinancial(setMonthlyExpenses(v))
  \/ \E v \in YearlyExpenses : setFinancial(setYearlyExpenses(v))
  \/ \E v \in Premiums : setFinancial(setTermPlan(v))
  \/ \E v \in SlabsPicked : setFinancial(setTaxSlab(v))
  \/ handleFinancialSubmit
  \/ \E validation \in ValidationReplies : validationResolved(validation)
  \/ validationRejected

SpecIntake == Init /\ [][NextIntake]_vars

-----------------------------------------------------------------------------
(* Step 3: the risk questionnaire *)

\* the four questions, each offering the scores 1 to 4
RISK_QUESTIONS ==
  << [id |-> 1, scores |-> {1, 2, 3, 4}], [id |-> 2, scores |-> {1, 2, 3, 4}],
     [id |-> 3, scores |-> {1, 2, 3, 4}], [id |-> 4, scores |-> {1, 2, 3, 4}] >>

\* {...riskAnswers, [q.id]: opt.score}
setRiskAnswer(answers, id, score) ==
  [q \in (DOMAIN answers) \cup {id} |-> IF q = id THEN score ELSE answers[q]]

\* a variant that counts three answers as enough
answersCompleteAtThree(answers) ==
  ~(Cardinality(DOMAIN answers) < 3)

\* the negation of Object.keys(riskAnswers).length < RISK_QUESTIONS.length
answersComplete(answers) ==
  ~(Cardinality(DOMAIN answers) < Len(RISK_QUESTIONS))

RECURSIVE sumValues(_, _)
sumValues(answers, keys) ==
  IF keys = {} THEN 0
  ELSE LET k == CHOOSE x \in keys : TRUE
       IN  answers[k] + sumValues(answers, keys \ {k})

\* a variant that adds up the question ids in place of the scores
totalScoreOfKeys(answers) ==
  sumValues([q \in DOMAIN answers |-> q], DOMAIN answers)

\* Object.values(riskAnswers).reduce((a, b) => a + b, 0)
totalScore(answers) == sumValues(answers, DOMAIN answers)

\* what calculateRiskProfile is asked: the score and the age
calculateRiskProfile(score, age) == [score |-> score, age |-> age]

ProfileReplies == {Moderate, [category |-> "High"]}

\* getPortfolioSummary reads personal.name while it builds the prompt: with
\* the personal argument left out the read throws a TypeError and the request
\* is never sent; otherwise the collaborator's reply is returned
getPortfolioSummary(f, p, reply) ==
  IF p = Undefined
  THEN [threw |-> TRUE, value |-> Null]
  ELSE [threw |-> FALSE, value |-> reply]

\* a reply that follows the buffer rule of the capacity calculation, and one
\* that takes the buffer as 10% of the inflow, as the prompt allows
SummaryReplies ==
  { [investableFromSalary |-> 48000, investableFromCorpus |-> 0,
     totalInvestable |-> 48000,
     breakdown |-> [totalMonthlyInflow |-> 100000,
                    totalMonthlyOutflow |-> 37000,
                    emergencyBuffer |-> 15000,
                    surplusBeforeInvestment |-> 63000]],
    [investableFromSalary |-> 53000, investableFromCorpus |-> 0,
     totalInvestable |-> 53000,
     breakdown |-> [totalMonthlyInflow |-> 100000,
                    totalMonthlyOutflow |-> 37000,
                    emergencyBuffer |-> 10000,
                    surplusBeforeInvestment |-> 63000]] }

\* an answer button of question id
selectAnswer(id, score) ==
  /\ step = 3
  /\ riskAnswers' = setRiskAnswer(riskAnswers, id, score)
  /\ lastOp' = Op("selectAnswer", "set")
  /\ UNCHANGED <<step, loading, error, aiCorrection, hasDraft, personal,
                 financial, riskProfile, investment, recommendations,
                 portfolioSummary, localStorage, pendingFix, edits>>
  /\ UNCHANGED intakeVars
  /\ UNCHANGED <<wordVars, today, savedState>>

\* the submit: an error when answers are missing, else the risk-profile
\* request is sent and left pending
handleRiskSubmit ==
  /\ step = 3
  /\ ~loading
  /\ IF ~answersComplete(riskAnswers)
     THEN /\ error' = "Please answer all questions."
          /\ lastOp' = Op("handleRiskSubmit", "incomplete")
          /\ UNCHANGED <<loading, pendingRisk>>
     ELSE /\ loading' = TRUE
          /\ pendingRisk' =
               [prompt |-> calculateRiskProfile(totalScore(riskAnswers),
                                                personal.age),
                financial |-> financial]
          /\ lastOp' = Op("handleRiskSubmit", "requested")
          /\ UNCHANGED error
  /\ UNCHANGED <<step, aiCorrection, hasDraft, formVars, riskProfile,
                 investment, recommendations, portfolioSummary, localStorage,
                 pendingFix, edits, pendingValidation>>
  /\ UNCHANGED <<wordVars, today, savedState>>

\* the call passes one argument: personal is left out
riskSubmitSummaryCall(reply) ==
  getPortfolioSummary(pendingRisk.financial, Undefined, reply)

\* a variant that stores the profile before the summary is asked for
riskProfileResolvedPartial(profile, summary) ==
  /\ pendingRisk # Null
  /\ riskProfile' = profile
  /\ error' = "Failed to calculate risk profile. AI response was invalid."
  /\ lastOp' = Op("handleRiskSubmit", "summaryThrew")
  /\ loading' = FALSE
  /\ pendingRisk' = Null
  /\ UNCHANGED <<step, portfolioSummary, investment, wordVars, aiCorrection,
                 hasDraft, formVars, recommendations, localStorage, pendingFix,
                 edits, pendingValidation, today, savedState>>

\* the profile arrives and the summary is asked for
riskProfileResolved(profile, summary) ==
  /\ pendingRisk # Null
  /\ LET call == riskSubmitSummaryCall(summary)
     IN  IF call.threw
         THEN /\ error' = "Failed to calculate risk profile. AI response was invalid."
              /\ lastOp' = Op("handleRiskSubmit", "summaryThrew")
              /\ UNCHANGED <<step, riskProfile, portfolioSummary, investment,
                             wordVars>>
         ELSE /\ riskProfile' = profile
              /\ portfolioSummary' = call.value
              /\ investment' =
                   [investment EXCEPT
                      !.sipAmount = call.value.investableFromSalary,
                      !.lumpsumAmount = call.value.investableFromCorpus]
              /\ step' = 4
              /\ lastOp' = Op("handleRiskSubmit", "advanced")
              /\ sipWords' =
                   sipWordsEffect(investment.sipAmount,
                                  call.value.investableFromSalary).words
              /\ sipTimeoutRef' =
                   sipWordsEffect(investment.sipAmount,
                                  call.value.investableFromSalary).timer
              /\ UNCHANGED <<error, sipRequests>>
  /\ loading' = FALSE
  /\ pendingRisk' = Null
  /\ UNCHANGED <<aiCorrection, hasDraft, formVars, recommendations,
                 localStorage, pendingFix, edits, pendingValidation>>
  /\ UNCHANGED <<today, savedState>>

\* the risk-profile request is rejected, or its text does not parse
riskProfileRejected ==
  /\ pendingRisk # Null
  /\ error' = "Failed to calculate risk profile. AI response was invalid."
  /\ lastOp' = Op("handleRiskSubmit", "profileFailed")
  /\ loading' = FALSE
  /\ pendingRisk' = Null
  /\ UNCHANGED <<step, aiCorrection, hasDraft, formVars, riskProfile,
                 investment, recommendations, portfolioSummary, localStorage,
                 pendingFix, edits, pendingValidation>>
  /\ UNCHANGED <<wordVars, today, savedState>>

-----------------------------------------------------------------------------
(* The questionnaire phase of a session resumed from a draft saved at     *)
(* step 3.                                                                 *)

NextRisk ==
  \/ loadDraft
  \/ \E i \in 1..Len(RISK_QUESTIONS) : \E score \in RISK_QUESTIONS[i].scores :
       selectAnswer(RISK_QUESTIONS[i].id, score)
  \/ handleRiskSubmit
  \/ \E profile \in ProfileReplies, summary \in SummaryReplies :
       riskProfileResolved(profile, summary)
  \/ riskProfileRejected

SpecRisk == Init /\ [][NextRisk]_vars

-----------------------------------------------------------------------------
(* Step 4: the SIP amount and its rendering in words.  The effect of       *)
(* investment.sipAmount sets a 600 ms timer; the timer's callback asks the *)
(* collaborator for the words of the amount the effect ran with and        *)
(* stores the answer.  The effects of lumpsumAmount, totalCorpusToInvest   *)
(* and monthlyIncome are the same code over their own state.               *)

\* the SIP input of step 4, shown for the types SIP and Both
setSipAmount(v) ==
  /\ step = 4
  /\ riskProfile # Null
  /\ portfolioSummary # Null
  /\ investment.type \in {"SIP", "Both"}
  /\ v # investment.sipAmount
  /\ investment' = [investment EXCEPT !.sipAmount = v]
  /\ sipWords' = sipWordsEffect(investment.sipAmount, v).words
  /\ sipTimeoutRef' = sipWordsEffect(investment.sipAmount, v).timer
  /\ lastOp' = Op("setSipAmount", "set")
  /\ UNCHANGED <<step, loading, error, aiCorrection, hasDraft, formVars,
                 riskProfile, recommendations, portfolioSummary, localStorage,
                 pendingFix, edits, sipRequests, today, savedState>>
  /\ UNCHANGED intakeVars

\* the timer's callback starts: getAmountInWords(amount) is in flight
sipTimerFires ==
  /\ sipTimeoutRef # Null
  /\ sipRequests' = sipRequests \cup {sipTimeoutRef.amount}
  /\ sipTimeoutRef' = Null
  /\ lastOp' = Op("getAmountInWords", "requested")
  /\ UNCHANGED <<step, loading, error, aiCorrection, hasDraft, formVars,
                 riskProfile, investment, recommendations, portfolioSummary,
                 localStorage, pendingFix, edits, sipWords, today, savedState>>
  /\ UNCHANGED intakeVars

\* the request for amount answers: setSipWords(words)
sipWordsResolved(amount) ==
  /\ amount \in sipRequests
  /\ sipWords' = WordsOf(amount)
  /\ sipRequests' = sipRequests \ {amount}
  /\ lastOp' = Op("getAmountInWords", "resolved")
  /\ UNCHANGED <<step, loading, error, aiCorrection, hasDraft, formVars,
                 riskProfile, investment, recommendations, portfolioSummary,
                 localStorage, pendingFix, edits, sipTimeoutRef, today, savedState>>
  /\ UNCHANGED intakeVars

\* the request for amount is rejected: the callback has no handler for it
sipWordsRejected(amount) ==
  /\ amount \in sipRequests
  /\ sipRequests' = sipRequests \ {amount}
  /\ lastOp' = Op("getAmountInWords", "unhandledRejection")
  /\ UNCHANGED <<step, loading, error, aiCorrection, hasDraft, formVars,
                 riskProfile, investment, recommendations, portfolioSummary,
                 localStorage, pendingFix, edits, sipWords, sipTimeoutRef,
                 today, savedState>>
  /\ UNCHANGED intakeVars

\* the investment page of a session resumed from a draft saved at step 4
NextWords ==
  \/ loadDraft
  \/ \E t \in InvestmentTypes : setInvestmentType(t)
  \/ \E v \in SipAmounts : setSipAmount(v)
  \/ sipTimerFires
  \/ \E amount \in SipAmounts : sipWordsResolved(amount)
  \/ \E amount \in SipAmounts : sipWordsRejected(amount)
  \/ \E reply \in FixReplies : handleFinalSubmit(reply)

SpecWords == Init /\ [][NextWords]_vars

-----------------------------------------------------------------------------
(* The whole wizard: a session from the first page or from a resumed       *)
(* draft, through the five steps, with one value typed into each field of  *)
(* steps 1 to 3 where the steps' own specifications try several.           *)

WizardDobs == {"1980-01-01"}

WizardScores == {3}

NextWizard ==
  \/ \E v \in PersonNames : setName(v)
  \/ \E v \in WizardDobs : setDob(v)
  \/ \E v \in Mobiles : setMobile(v)
  \/ \E v \in Emails : setEmail(v)
  \/ handlePersonalSubmit
  \/ \E v \in Incomes : setFinancial(setMonthlyIncome(v))
  \/ \E v \in MonthlyExpenses : setFinancial(setMonthlyExpenses(v))
  \/ handleFinancialSubmit
  \/ \E validation \in ValidationReplies : validationResolved(validation)
  \/ validationRejected
  \/ \E i \in 1..Len(RISK_QUESTIONS) : \E score \in WizardScores :
       selectAnswer(RISK_QUESTIONS[i].id, score)
  \/ handleRiskSubmit
  \/ \E profile \in ProfileReplies, summary \in SummaryReplies :
       riskProfileResolved(profile, summary)
  \/ riskProfileRejected
  \/ Next

SpecWizard == Init /\ [][NextWizard]_vars

\* a call to the collaborator that is in flight settles: it answers or it
\* is rejected
Settle ==
  \/ \E validation \in ValidationReplies : validationResolved(validation)
  \/ validationRejected
  \/ \E profile \in ProfileReplies, summary \in SummaryReplies :
       riskProfileResolved(profile, summary)
  \/ riskProfileRejected
  \/ \E optimized \in FixReplies : fixOverlapsResolved(optimized)
  \/ fixOverlapsRejected

\* the wizard with every call in flight settling in the end
SpecWizardFair == Init /\ [][NextWizard]_vars /\ WF_vars(Settle)

-----------------------------------------------------------------------------
(* The draft round trip.  "Save Draft" is offered from step 2 on and       *)
(* "Resume Session" at step 1 only, and nothing takes the step back to 1:  *)
(* a draft is loaded in a later session than the one that saved it, after  *)
(* the page has been loaded again, possibly on a later day.                *)

\* the page is loaded again: the component mounts with its initial state,
\* the mount effect finds the stored text; requests and timers of the
\* page left behind are gone with it
reload ==
  /\ step > 1
  /\ step' = 1
  /\ loading' = FALSE
  /\ error' = NoMessage
  /\ aiCorrection' = NoMessage
  /\ hasDraft' = (localStorage # Null)
  /\ personal' = InitialPersonal
  /\ financial' = InitialFinancial
  /\ riskAnswers' = <<>>
  /\ riskProfile' = Null
  /\ investment' = InitialInvestment
  /\ recommendations' = <<>>
  /\ portfolioSummary' = Null
  /\ pendingFix' = Null
  /\ lastOp' = Op("mount", "ok")
  /\ edits' = 0
  /\ pendingValidation' = Null
  /\ pendingRisk' = Null
  /\ sipWords' = ""
  /\ sipTimeoutRef' = Null
  /\ sipRequests' = {}
  /\ UNCHANGED <<localStorage, today, savedState>>

\* the day ends: new Date() returns the next day from now on
midnight ==
  /\ today = Today
  /\ today' = Tomorrow
  /\ lastOp' = Op("midnight", "ok")
  /\ UNCHANGED <<step, loading, error, aiCorrection, hasDraft, formVars,
                 riskProfile, investment, recommendations, portfolioSummary,
                 localStorage, pendingFix, edits, savedState>>
  /\ UNCHANGED intakeVars
  /\ UNCHANGED wordVars

\* a date of birth whose birthday is the day after the first session
DraftDobs == {"2000-06-16"}

NextDraft ==
  \/ loadDraft
  \/ \E v \in PersonNames : setName(v)
  \/ \E v \in DraftDobs : setDob(v)
  \/ \E v \in Mobiles : setMobile(v)
  \/ \E v \in Emails : setEmail(v)
  \/ handlePersonalSubmit
  \/ \E v \in Incomes : setFinancial(setMonthlyIncome(v))
  \/ \E value \in OverrideValues : handleAllocationOverride(0, "sip", value)
  \/ saveDraft
  \/ reload
  \/ midnight

SpecDraft == Init /\ [][NextDraft]_vars

-----------------------------------------------------------------------------
(* Properties *)

slotsNamed(recs, n) == {k \in 1..Len(recs) : recs[k].name = n}

alternativeNames(slot) ==
  {slot.alternatives[k].name : k \in 1..Len(slot.alternatives)}

\* C1: a substitution whose name is neither the slot's own name nor one of
\* its alternatives' names leaves the plan unchanged and leaves an error
\* message reported
C1_InvalidSubstitutionReported ==
  [][lastOp'.op = "handleSchemeChange" =>
     \A index \in 0..(PlanSize - 1), newName \in Names, confirmed \in BOOLEAN :
       ( /\ HasIndex(recommendations, index)
         /\ \A k \in 1..Len(candidatesOf(At(recommendations, index))) :
              candidatesOf(At(recommendations, index))[k].name # newName
         /\ handleSchemeChange(index, newName, confirmed) )
       => (recommendations' = recommendations /\ error' # NoMessage)]_vars

\* C2: a substitution to an alternative's name that exactly one other slot
\* carries asks for confirmation; confirmed, the slot carries the name and
\* the name's count is 2; declined, the plan is unchanged
C2_OverlappingSubstitutionFlagged ==
  [][lastOp'.op = "handleSchemeChange" =>
     \A index \in 0..(PlanSize - 1), newName \in FundNames, confirmed \in BOOLEAN :
       ( /\ HasIndex(recommendations, index)
         /\ newName \in alternativeNames(At(recommendations, index))
         /\ Cardinality(slotsNamed(recommendations, newName) \ {index + 1}) = 1
         /\ handleSchemeChange(index, newName, confirmed) )
       => /\ lastOp'.confirmAsked
          /\ confirmed =>
               /\ At(recommendations', index).name = newName
               /\ newName \in DOMAIN overlapsMapOf(recommendations')
               /\ overlapsMapOf(recommendations')[newName] = 2
          /\ ~confirmed => recommendations' = recommendations]_vars

C2_Witness ==
  /\ lastOp = [op |-> "handleSchemeChange", outcome |-> "swapped",
               confirmAsked |-> TRUE]
  /\ \E n \in DOMAIN overlapsMap : overlapsMap[n] = 2

\* C3: the overlap map has exactly the named funds of the plan as its keys,
\* maps each to the number of slots carrying it, and overlap is reported
\* exactly when some fund is carried by more than one slot
C3_OverlapCounts ==
  /\ DOMAIN overlapsMap =
       {recommendations[k].name : k \in 1..Len(recommendations)} \ {NoName}
  /\ \A n \in DOMAIN overlapsMap :
       overlapsMap[n] = Cardinality(slotsNamed(recommendations, n))
  /\ hasAnyOverlap <=>
       \E n \in FundNames : Cardinality(slotsNamed(recommendations, n)) > 1

C3_Witness ==
  /\ step = 5
  /\ \E n \in DOMAIN overlapsMap : overlapsMap[n] = 3
  /\ \E n \in DOMAIN overlapsMap : overlapsMap[n] = 1

pairwiseDistinct(recs, ks) ==
  \A j \in ks, k \in ks : j # k => recs[j].name # recs[k].name

\* C4 as claimed: for a five-slot plan no overlap is reported exactly when
\* the five names, empty ones included, are pairwise distinct
C4_NoOverlapIffDistinct ==
  Len(recommendations) = PlanSize =>
    (~hasAnyOverlap <=>
       pairwiseDistinct(recommendations, 1..Len(recommendations)))

\* C4 as amended: for a five-slot plan no overlap is reported exactly when
\* the names of the slots that have a name are pairwise distinct
C4_NoOverlapIffNamedDistinct ==
  Len(recommendations) = PlanSize =>
    (~hasAnyOverlap <=>
       pairwiseDistinct(recommendations,
         {k \in 1..Len(recommendations) : recommendations[k].name # NoName}))

C4_Witness ==
  /\ step = 5
  /\ Len(recommendations) = PlanSize
  /\ Cardinality(slotsNamed(recommendations, NoName)) > 1
  /\ ~hasAnyOverlap

\* C5: an override writes the value to the slot's percentage of the track
\* and changes nothing else of the plan
C5_OverrideFrame ==
  [][lastOp'.op = "handleAllocationOverride" =>
     \A index \in 0..(PlanSize - 1), type \in Tracks, value \in OverrideValues :
       handleAllocationOverride(index, type, value) =>
         /\ Len(recommendations') = Len(recommendations)
         /\ \A k \in 1..Len(recommendations) :
              LET old == recommendations[k]
                  new == recommendations'[k]
              IN  /\ new.name = old.name
                  /\ new.alternatives = old.alternatives
                  /\ new.sipAllocationPct =
                       (IF k = index + 1 /\ type = "sip" THEN value
                        ELSE old.sipAllocationPct)
                  /\ new.lumpsumAllocationPct =
                       (IF k = index + 1 /\ type = "lumpsum" THEN value
                        ELSE old.lumpsumAllocationPct)]_vars

C5_Witness ==
  /\ lastOp.op = "handleAllocationOverride"
  /\ allocationSums.sip = 180
  /\ allocationSums.lumpsum = 100

\* C6: when a reply to the overlap resolution is accepted as the plan, the
\* plan has no fund in more than one slot
C6_ResolvedPlanHasNoOverlap ==
  [][lastOp'.op = "fixOverlapsWithAI" =>
     \A optimized \in FixReplies :
       (fixOverlapsResolved(optimized) /\ acceptsReply(optimized))
       => ~hasAnyOverlapOf(recommendations')]_vars

sameInstrumentsAndWeights(a, b) ==
  /\ Len(a) = Len(b)
  /\ \A k \in 1..Len(a) :
       /\ a[k].name = b[k].name
       /\ a[k].sipAllocationPct = b[k].sipAllocationPct
       /\ a[k].lumpsumAllocationPct = b[k].lumpsumAllocationPct

\* C7: the overlap resolution, called on a five-slot plan whose names are
\* pairwise distinct, completes with every slot's instrument and percentages
\* as they were in that plan
C7_ResolveIdempotent ==
  [][(lastOp'.op = "fixOverlapsWithAI" /\ pendingFix # Null) =>
     \A optimized \in FixReplies :
       ( /\ fixOverlapsResolved(optimized)
         /\ Len(pendingFix.currentPortfolio) = PlanSize
         /\ pairwiseDistinct(pendingFix.currentPortfolio, 1..PlanSize) )
       => sameInstrumentsAndWeights(recommendations',
                                    pendingFix.currentPortfolio)]_vars

\* C8: a plan set by plan generation or by an accepted overlap resolution
\* has both tracks' percentages summing to 100
C8_ProducedPlanSumsTo100 ==
  [][( \/ \E reply \in FixReplies :
            handleFinalSubmit(reply) /\ lastOp'.outcome = "generated"
       \/ \E optimized \in FixReplies :
            fixOverlapsResolved(optimized) /\ acceptsReply(optimized) )
     => allocationSumsOf(recommendations') = [sip |-> 100, lumpsum |-> 100]]_vars

\* C9: at the report step the plan has exactly five slots
C9_FiveSlotsAtReport ==
  step = 5 => Len(recommendations) = PlanSize

\* C10: at the report step the allocation warning is visible exactly when a
\* track of the chosen investment type does not sum to 100
C10_WarningOnlyForChosenTracks ==
  step = 5 =>
    (allocationWarningVisible <=>
       \/ investment.type \in {"SIP", "Both"} /\ allocationSums.sip # 100
       \/ investment.type \in {"Lumpsum", "Both"} /\ allocationSums.lumpsum # 100)

\* C11: every slot's SIP and lumpsum percentage lies between 0 and 100
C11_PercentagesInRange ==
  \A k \in 1..Len(recommendations) :
    /\ recommendations[k].sipAllocationPct \in 0..100
    /\ recommendations[k].lumpsumAllocationPct \in 0..100

\* C19: when handleFinalSubmit requests the plan, the request is sent and its
\* short-horizon indicator is true exactly when the answer recorded for
\* question 3 scores 1 or 2
C19_ShortHorizonFromQuestion3 ==
  [][(lastOp'.op = "handleFinalSubmit" /\ 3 \in DOMAIN riskAnswers) =>
     \A reply \in FixReplies :
       handleFinalSubmit(reply) =>
         LET call == finalSubmitCall(reply)
         IN  /\ ~call.threw
             /\ call.prompt.isShortHorizon = (riskAnswers[3] \in {1, 2})]_vars

\* the snapshot sent for validation has a cash-flow deficit
cashFlowDeficit(f) == f.monthlyIncome < totalMonthlyOutflow(f)

\* C12: a submit of the financial step with monthlyIncome below
\* totalMonthlyOutflow leaves the wizard at step 2 with an error message set,
\* and the wizard moves from step 2 to step 3 only on a reply with isValid
C12_DeficitBlocksProgress ==
  [][(lastOp'.op = "handleFinancialSubmit" /\ pendingValidation # Null) =>
     \A validation \in ValidationReplies :
       validationResolved(validation) =>
         /\ cashFlowDeficit(pendingValidation.financial) =>
              (step' = 2 /\ error' # NoMessage)
         /\ (step = 2 /\ step' = 3) => validation.isValid]_vars

\* C13: a reply with isValid = false to a snapshot with a cash-flow deficit
\* leaves taxSlab as it was and shows no correction notice
C13_NoSuggestionOnFailure ==
  [][(lastOp'.op = "handleFinancialSubmit" /\ pendingValidation # Null) =>
     \A validation \in ValidationReplies :
       ( /\ validationResolved(validation)
         /\ ~validation.isValid
         /\ cashFlowDeficit(pendingValidation.financial) )
       => (financial'.taxSlab = financial.taxSlab /\ aiCorrection' = NoMessage)]_vars

\* the effect C14 describes, for a reply with isValid, given which replies
\* count as carrying a suggestion
slabCorrectionEffect(validation, suggests) ==
  IF suggests /\ validation.suggestedTaxSlab # pendingValidation.financial.taxSlab
  THEN /\ financial'.taxSlab = validation.suggestedTaxSlab
       /\ aiCorrection' # NoMessage
       /\ error' = NoMessage
       /\ step' = 3
  ELSE /\ financial'.taxSlab = financial.taxSlab
       /\ aiCorrection' = NoMessage

\* C14 as stated: every suggestedTaxSlab that is not null and differs from the
\* declared slab is applied with a notice and the wizard advances; a null or
\* equal suggestion changes nothing and shows no notice
C14_SuggestionApplied ==
  [][(lastOp'.op = "handleFinancialSubmit" /\ pendingValidation # Null) =>
     \A validation \in ValidationReplies :
       (validationResolved(validation) /\ validation.isValid) =>
         slabCorrectionEffect(validation,
                              validation.suggestedTaxSlab # NoMessage)]_vars

\* C14, amended: the above for a suggestedTaxSlab that is not null and not
\* the empty text; a null, empty or equal suggestion changes nothing
C14_NonEmptySuggestionApplied ==
  [][(lastOp'.op = "handleFinancialSubmit" /\ pendingValidation # Null) =>
     \A validation \in ValidationReplies :
       (validationResolved(validation) /\ validation.isValid) =>
         slabCorrectionEffect(validation,
                              validation.suggestedTaxSlab \notin {NoMessage, ""})]_vars

C14_Witness ==
  /\ lastOp = Op("handleFinancialSubmit", "advanced")
  /\ step = 3
  /\ financial.taxSlab = TAX_SLABS[3]
  /\ aiCorrection # NoMessage
  /\ error = NoMessage

\* C15: the snapshot's taxSlab is one of the six labels of TAX_SLABS
C15_TaxSlabInTable ==
  financial.taxSlab \in TaxSlabLabels

\* the birthdays on or before the day, counted from the date of birth
completedYears(birth, now) ==
  Cardinality({ y \in (birth.year + 1)..now.year :
                  \/ birth.month < now.month
                  \/ (birth.month = now.month /\ birth.day <= now.day)
                  \/ y < now.year })

\* C20: the derived age is never negative and, for a date of birth that is
\* set, it is the number of completed years up to today
C20_AgeIsCompletedYears ==
  /\ personal.age >= 0
  /\ personal.dob # "" =>
       personal.age = completedYears(parseDate(personal.dob), today)

\* C16: with fewer than the four questions answered, handleRiskSubmit sends
\* no request, leaves riskProfile, portfolioSummary and step as they were and
\* sets the incomplete-answers error
C16_IncompleteAnswersBlock ==
  [][(lastOp'.op = "handleRiskSubmit" /\ handleRiskSubmit
        /\ ~({1, 2, 3, 4} \subseteq DOMAIN riskAnswers))
     => /\ pendingRisk' = Null
        /\ loading' = FALSE
        /\ riskProfile' = riskProfile
        /\ portfolioSummary' = portfolioSummary
        /\ step' = step
        /\ error' = "Please answer all questions."]_vars

C16_Witness ==
  /\ lastOp = Op("handleRiskSubmit", "incomplete")
  /\ Cardinality(DOMAIN riskAnswers) = 3
  /\ error = "Please answer all questions."
  /\ pendingRisk = Null

\* C17: the score handleRiskSubmit passes to calculateRiskProfile is the sum
\* of exactly four answers, one per question 1..4, each between 1 and 4, and
\* so lies between 4 and 16
C17_ScoreOfFourAnswers ==
  [][(lastOp'.op = "handleRiskSubmit" /\ handleRiskSubmit /\ pendingRisk' # Null)
     => /\ DOMAIN riskAnswers = {1, 2, 3, 4}
        /\ \A q \in DOMAIN riskAnswers : riskAnswers[q] \in 1..4
        /\ pendingRisk'.prompt.score =
             riskAnswers[1] + riskAnswers[2] + riskAnswers[3] + riskAnswers[4]
        /\ pendingRisk'.prompt.score \in 4..16]_vars

\* the request sent after questions 1 to 3 were answered again with score 1
C17_Witness ==
  /\ lastOp = Op("handleRiskSubmit", "requested")
  /\ pendingRisk # Null
  /\ pendingRisk.prompt.score = 4
  /\ riskAnswers = <<1, 1, 1, 1>>

Max(a, b) == IF a >= b THEN a ELSE b

grossSurplus(f) == f.monthlyIncome - totalMonthlyOutflow(f)

emergencyBuffer(f) ==
  Max((10 * grossSurplus(f)) \div 100, (15 * f.monthlyIncome) \div 100)

\* C18: for a snapshot without deficit, the capacity stored by
\* handleRiskSubmit has emergencyBuffer = max(10% of grossSurplus, 15% of
\* monthlyIncome) and investableFromSalary = max(0, grossSurplus -
\* emergencyBuffer), and the SIP amount is pre-filled with investableFromSalary
C18_CapacityStored ==
  [][(lastOp'.op = "handleRiskSubmit" /\ pendingRisk # Null) =>
     \A profile \in ProfileReplies, summary \in SummaryReplies :
       ( /\ riskProfileResolved(profile, summary)
         /\ ~cashFlowDeficit(pendingRisk.financial) )
       => /\ portfolioSummary' # Null
          /\ portfolioSummary'.breakdown.emergencyBuffer =
               emergencyBuffer(pendingRisk.financial)
          /\ portfolioSummary'.investableFromSalary =
               Max(0, grossSurplus(pendingRisk.financial)
                        - emergencyBuffer(pendingRisk.financial))
          /\ investment'.sipAmount = portfolioSummary'.investableFromSalary]_vars

\* C24: a substitution that goes through keeps the slot's two percentages and
\* every other slot, and so both track sums
C24_SubstitutionKeepsWeights ==
  [][(lastOp'.op = "handleSchemeChange" /\ lastOp'.outcome = "swapped") =>
     \A index \in 0..(PlanSize - 1), newName \in Names, confirmed \in BOOLEAN :
       handleSchemeChange(index, newName, confirmed) =>
         /\ Len(recommendations') = Len(recommendations)
         /\ At(recommendations', index).sipAllocationPct =
              At(recommendations, index).sipAllocationPct
         /\ At(recommendations', index).lumpsumAllocationPct =
              At(recommendations, index).lumpsumAllocationPct
         /\ \A k \in 1..Len(recommendations) :
              k # index + 1 => recommendations'[k] = recommendations[k]
         /\ allocationSumsOf(recommendations') =
              allocationSumsOf(recommendations)]_vars

\* slot 0 of the five-fund plan moved from A (40/30) to its alternative F
C24_Witness ==
  /\ lastOp.op = "handleSchemeChange"
  /\ lastOp.outcome = "swapped"
  /\ Len(recommendations) = PlanSize
  /\ recommendations[1].name = "F"
  /\ recommendations[1].sipAllocationPct = 40
  /\ recommendations[1].lumpsumAllocationPct = 30
  /\ recommendations[2].name = "B"

candidateNames(slot) == {slot.name} \cup alternativeNames(slot)

distinctCandidates(slot) ==
  \A j, k \in 1..Len(candidatesOf(slot)) :
    j # k => candidatesOf(slot)[j].name # candidatesOf(slot)[k].name

\* C25: for a slot whose own name and alternatives are pairwise distinct, a
\* substitution to one of the alternatives keeps the set of candidate names
\* and the number of alternatives, and substituting the original name again
\* makes it the slot's fund again
C25_SubstitutionKeepsCandidates ==
  [][(lastOp'.op = "handleSchemeChange" /\ lastOp'.outcome = "swapped") =>
     \A index \in 0..(PlanSize - 1), newName \in Names, confirmed \in BOOLEAN :
       ( /\ handleSchemeChange(index, newName, confirmed)
         /\ distinctCandidates(At(recommendations, index))
         /\ newName \in alternativeNames(At(recommendations, index)) )
       => LET before == At(recommendations, index)
              after == At(recommendations', index)
              back == schemeChange(recommendations', index, before.name, TRUE)
          IN  /\ after.name = newName
              /\ candidateNames(after) = candidateNames(before)
              /\ Len(after.alternatives) = Len(before.alternatives)
              /\ back.outcome = "swapped"
              /\ At(back.plan, index).name = before.name
              /\ candidateNames(At(back.plan, index)) = candidateNames(before)]_vars

\* slot 1 moved from B to F: A and B are now its alternatives
C25_Witness ==
  /\ lastOp.op = "handleSchemeChange"
  /\ lastOp.outcome = "swapped"
  /\ Len(recommendations) = PlanSize
  /\ recommendations[2].name = "F"
  /\ candidateNames(recommendations[2]) = {"A", "B", "F"}
  /\ Len(recommendations[2].alternatives) = 2

\* C28: an overlap-resolution reply replaces the whole plan exactly when it
\* has five entries, whatever was edited meanwhile; any other reply leaves
\* the plan as it is, and so does a failed request, which sets an error
C28_ReplyReplacesIffFive ==
  [][(lastOp'.op = "fixOverlapsWithAI" /\ pendingFix # Null) =>
     /\ \A optimized \in FixReplies :
          fixOverlapsResolved(optimized) =>
            IF optimized.isArray /\ Len(optimized.items) = 5
            THEN recommendations' = optimized.items
            ELSE recommendations' = recommendations
     /\ fixOverlapsRejected =>
          (recommendations' = recommendations /\ error' # NoMessage)]_vars

\* a five-entry reply has replaced a plan that was edited while the request
\* was pending
C28_Witness ==
  /\ lastOp = Op("fixOverlapsWithAI", "replacedEdited")
  /\ recommendations = PlanOffTotal
  /\ edits > 0

\* C23: the answer to a request for an amount that is no longer the SIP
\* amount leaves the displayed words as they are
C23_StaleResponseDropped ==
  [][lastOp'.op = "getAmountInWords" =>
     \A amount \in SipAmounts :
       ( /\ sipWordsResolved(amount)
         /\ amount # investment.sipAmount )
       => sipWords' = sipWords]_vars

\* the step at which a call to the collaborator is rejected
collaboratorCallRejected ==
  \/ validationRejected
  \/ riskProfileRejected
  \/ fixOverlapsRejected
  \/ \E amount \in SipAmounts : sipWordsRejected(amount)

\* C22: every rejected call to the collaborator leaves an error message
\* reported
C22_RejectionsReported ==
  [][collaboratorCallRejected => error' # NoMessage]_vars

\* C26: when the risk-profile reply and the capacity reply are well formed,
\* handleRiskSubmit ends at step 4 with riskProfile and portfolioSummary
\* set; when the plan reply has five slots, handleFinalSubmit ends at step 5
C26_SuccessfulRepliesAdvance ==
  [][lastOp'.op \in {"handleRiskSubmit", "handleFinalSubmit"} =>
     /\ \A profile \in ProfileReplies, summary \in SummaryReplies :
          riskProfileResolved(profile, summary)
          => step' = 4 /\ riskProfile' # Null /\ portfolioSummary' # Null
     /\ \A reply \in FixReplies :
          ( /\ reply.isArray
            /\ Len(reply.items) = PlanSize
            /\ handleFinalSubmit(reply) )
          => step' = 5]_vars

\* what handleRiskSubmit leaves behind when one of its two calls fails
riskSubmitFailed ==
  /\ UNCHANGED <<riskProfile, portfolioSummary, investment, step>>
  /\ error' # NoMessage

\* C27: when the risk-profile call or the capacity call fails, riskProfile,
\* portfolioSummary, the investment amounts and the step are unchanged and
\* an error message is set; when both succeed the four are updated
\* together, the amounts with investableFromSalary and investableFromCorpus
C27_RiskSubmitAllOrNothing ==
  [][lastOp'.op = "handleRiskSubmit" =>
     /\ riskProfileRejected => riskSubmitFailed
     /\ \A profile \in ProfileReplies, summary \in SummaryReplies :
          riskProfileResolved(profile, summary)
          => IF riskSubmitSummaryCall(summary).threw
             THEN riskSubmitFailed
             ELSE /\ riskProfile' = profile
                  /\ portfolioSummary' = summary
                  /\ investment'.sipAmount = summary.investableFromSalary
                  /\ investment'.lumpsumAmount = summary.investableFromCorpus
                  /\ step' = 4]_vars

C27_Witness ==
  /\ lastOp = Op("handleRiskSubmit", "summaryThrew")
  /\ answersComplete(riskAnswers)
  /\ step = 3
  /\ riskProfile = Null
  /\ portfolioSummary = Null
  /\ error # NoMessage

\* C29: the step is always one of 1..5 and changes only by a successful
\* submit of the current step (by one, from step 1 only with a 10-digit
\* mobile and an email containing "@"), by Back from step 5 to step 4, or
\* by loadDraft at step 1 while a draft exists; a submit that fails leaves
\* the step as it is
C29_StepTransitions ==
  /\ [](step \in 1..5)
  /\ [][step' # step =>
         \/ /\ step = 1
            /\ step' = 2
            /\ lastOp' = Op("handlePersonalSubmit", "advanced")
            /\ isTenDigits(personal.mobile)
            /\ includesAt(personal.email)
         \/ /\ step = 2
            /\ step' = 3
            /\ lastOp' = Op("handleFinancialSubmit", "advanced")
         \/ /\ step = 3
            /\ step' = 4
            /\ lastOp' = Op("handleRiskSubmit", "advanced")
         \/ /\ step = 4
            /\ step' = 5
            /\ lastOp' = Op("handleFinalSubmit", "generated")
         \/ /\ step = 5
            /\ step' = 4
            /\ lastOp' = Op("Back", "ok")
         \/ /\ step = 1
            /\ hasDraft
            /\ lastOp' = Op("loadDraft", "loaded")]_vars
  /\ [][lastOp'.outcome \in {"mobile", "email", "invalid", "failed",
                              "incomplete", "profileFailed", "summaryThrew"}
         => step' = step]_vars

C29_Witness ==
  /\ step = 3
  /\ lastOp = Op("handleFinancialSubmit", "advanced")
  /\ hasDraft
  /\ isTenDigits(personal.mobile)

\* C30: whenever the loading flag is set it is cleared again
C30_LoadingCleared ==
  loading ~> ~loading

C30_Witness ==
  /\ lastOp = Op("fixOverlapsWithAI", "failed")
  /\ ~loading
  /\ pendingFix = Null

\* what loadDraft restores of the values saved, the personal profile aside
restoredBesidesPersonal ==
  /\ step' = savedState.step
  /\ financial' = savedState.financial
  /\ riskAnswers' = savedState.riskAnswers
  /\ riskProfile' = savedState.riskProfile
  /\ investment' = savedState.investment
  /\ recommendations' = savedState.recommendations
  /\ portfolioSummary' = savedState.portfolioSummary

\* C21 as stated: loadDraft after saveDraft restores the step, the personal
\* profile, the financial snapshot, the risk answers, the risk profile, the
\* investment input, the plan and the capacity to the values saved
C21_DraftRoundTrip ==
  [][(lastOp'.op = "loadDraft" /\ loadDraft /\ savedState # Null) =>
       /\ restoredBesidesPersonal
       /\ personal' = savedState.personal]_vars

\* C21: loadDraft after saveDraft restores the step, the financial snapshot,
\* the risk answers, the risk profile, the investment input, the plan, the
\* capacity and the name, date of birth, mobile and email of the personal
\* profile to the values saved; the age is the number of completed years
\* from the restored date of birth to the day of loading when that date
\* differs from the one in the form, and the saved age otherwise
C21_DraftRoundTripButAge ==
  [][(lastOp'.op = "loadDraft" /\ loadDraft /\ savedState # Null) =>
       /\ restoredBesidesPersonal
       /\ personal'.name = savedState.personal.name
       /\ personal'.dob = savedState.personal.dob
       /\ personal'.mobile = savedState.personal.mobile
       /\ personal'.email = savedState.personal.email
       /\ personal'.age =
            (IF savedState.personal.dob # personal.dob
                /\ savedState.personal.dob # ""
             THEN completedYears(parseDate(savedState.personal.dob), today)
             ELSE savedState.personal.age)]_vars

C21_Witness ==
  /\ lastOp = Op("loadDraft", "loaded")
  /\ savedState # Null
  /\ step = savedState.step
  /\ personal.dob = savedState.personal.dob
  /\ personal.age # savedState.personal.age

====
